---- MODULE Spec2Model ----
(***************************************************************************)
(* The image-processing service of src/public/admin.js (the server that    *)
(* starts at line 644): the user, transaction and log collections, the     *)
(* per-user rate limiter, the extraction pipeline processImage and the     *)
(* HTTP handlers.  Strings whose characters the code inspects (raw text,   *)
(* UTR, amounts, model answers) are sequences of one-character strings;    *)
(* keys, names and e-mail addresses are opaque strings, "" standing for a  *)
(* missing or empty value.  Time is counted in days.                       *)
(***************************************************************************)
EXTENDS Integers, Sequences, FiniteSets, TLC

\* ------------------------------------------------------------ bounds
MaxUsers == 2
MaxTx == 1
MaxTime == 10
MaxBurst == 1
MaxOver == 1
MaxTokens == 2
MaxLimited == 2

\* ------------------------------------------------- program constants
RateMax == 20
WindowMs == 60000
LogTTL == 10
UtrLen == 12
AmountLimit == 100000
NaN == -1

\* ------------------------------------------------------------ strings
Rep(c, n) == [i \in 1..n |-> c]

Digits == {"0", "1", "2", "3", "4", "5", "6", "7", "8", "9"}

Letters ==
  {"a", "b", "c", "d", "e", "f", "g", "h", "i", "j", "k", "l", "m", "n", "o",
   "p", "q", "r", "s", "t", "u", "v", "w", "x", "y", "z",
   "A", "B", "C", "D", "E", "F", "G", "H", "I", "J", "K", "L", "M", "N", "O",
   "P", "Q", "R", "S", "T", "U", "V", "W", "X", "Y", "Z"}

\* \w of a JavaScript regular expression
IsWordChar(c) == c \in Digits \/ c \in Letters \/ c = "_"

\* undefined: the value of a property an object does not have
Absent == <<"undefined">>

\* a JSON number among the values of a parsed object: its digits behind a
\* mark, strings being sequences of one-character strings
Num(ds) == <<"number">> \o ds

IsNum(v) == v # <<>> /\ v[1] = "number"

\* JavaScript truthiness of a value that is a string, a number or undefined
Truthy(v) ==
  /\ v # Absent /\ v # <<>>
  /\ IsNum(v) => \E i \in 2..Len(v) : v[i] # "0"

\* the sentinel 'N/A'
NA == <<"N", "/", "A">>

\* a || 'N/A'
OrNA(v) == IF Truthy(v) THEN v ELSE NA

RECURSIVE TrimLeft(_)
TrimLeft(s) == IF s # <<>> /\ s[1] = " " THEN TrimLeft(Tail(s)) ELSE s

RECURSIVE TrimRight(_)
TrimRight(s) ==
  IF s # <<>> /\ s[Len(s)] = " " THEN TrimRight(SubSeq(s, 1, Len(s) - 1)) ELSE s

\* String.prototype.trim
Trim(s) == TrimRight(TrimLeft(s))

LowerOf ==
  ("C" :> "c") @@ ("O" :> "o") @@ ("R" :> "r") @@ ("E" :> "e") @@ ("T" :> "t")
  @@ ("N" :> "n") @@ ("F" :> "f") @@ ("U" :> "u") @@ ("D" :> "d")

\* String.prototype.toLowerCase
toLowerCase(s) ==
  [i \in 1..Len(s) |-> IF s[i] \in DOMAIN LowerOf THEN LowerOf[s[i]] ELSE s[i]]

\* Array.prototype.includes
includes(arr, v) == \E i \in 1..Len(arr) : arr[i] = v

\* String.prototype.startsWith, for a one-character prefix
startsWith(s, c) == s # <<>> /\ s[1] = c

\* ---------------------------------------------- /\b\d{12}\b/g matching
\* \b at position p (between s[p-1] and s[p])
WordAt(s, p) == p >= 1 /\ p <= Len(s) /\ IsWordChar(s[p])

Boundary(s, p) == WordAt(s, p - 1) # WordAt(s, p)

MatchAt(s, i) ==
  /\ i + UtrLen - 1 <= Len(s)
  /\ \A j \in i..(i + UtrLen - 1) : s[j] \in Digits
  /\ Boundary(s, i)
  /\ Boundary(s, i + UtrLen)

RECURSIVE ScanFrom(_, _)
ScanFrom(s, i) ==
  IF i + UtrLen - 1 > Len(s) THEN <<>>
  ELSE IF MatchAt(s, i)
       THEN <<SubSeq(s, i, i + UtrLen - 1)>> \o ScanFrom(s, i + UtrLen)
       ELSE ScanFrom(s, i + 1)

\* rawText.match(twelveDigitRegex) || []
twelveDigitMatches(rawText) == ScanFrom(rawText, 1)

\* ------------------------------------------- parseFloat and toFixed(2)
\* numbers are counted in hundredths; NaN is the one negative value
DigitVal ==
  ("0" :> 0) @@ ("1" :> 1) @@ ("2" :> 2) @@ ("3" :> 3) @@ ("4" :> 4)
  @@ ("5" :> 5) @@ ("6" :> 6) @@ ("7" :> 7) @@ ("8" :> 8) @@ ("9" :> 9)

DigitChar == <<"0", "1", "2", "3", "4", "5", "6", "7", "8", "9">>

RECURSIVE LeadDigits(_)
LeadDigits(s) ==
  IF s # <<>> /\ s[1] \in Digits THEN <<s[1]>> \o LeadDigits(Tail(s)) ELSE <<>>

RECURSIVE DigitsToNat(_)
DigitsToNat(ds) ==
  IF ds = <<>> THEN 0
  ELSE 10 * DigitsToNat(SubSeq(ds, 1, Len(ds) - 1)) + DigitVal[ds[Len(ds)]]

RECURSIVE NatToDigits(_)
NatToDigits(n) ==
  IF n < 10 THEN <<DigitChar[n + 1]>>
  ELSE NatToDigits(n \div 10) \o <<DigitChar[(n % 10) + 1]>>

\* the first two digits of a fraction, as hundredths
Hundredths(fp) ==
  IF fp = <<>> THEN 0
  ELSE IF Len(fp) = 1 THEN 10 * DigitVal[fp[1]]
  ELSE 10 * DigitVal[fp[1]] + DigitVal[fp[2]]

\* str.replace(/,/g, '')
stripCommas(s) == SelectSeq(s, LAMBDA c : c # ",")

\* parseFloat: leading blanks, digits, an optional fraction; NaN otherwise
parseFloat(s) ==
  LET t == TrimLeft(s)
      ip == LeadDigits(t)
      rest == SubSeq(t, Len(ip) + 1, Len(t))
      fp == IF startsWith(rest, ".") THEN LeadDigits(Tail(rest)) ELSE <<>>
  IN IF ip = <<>> /\ fp = <<>> THEN NaN
     ELSE 100 * DigitsToNat(ip) + Hundredths(fp)

isNaN(v) == v = NaN

\* Number.prototype.toFixed(2)
toFixed2(v) ==
  NatToDigits(v \div 100) \o <<".">>
    \o <<DigitChar[((v % 100) \div 10) + 1], DigitChar[(v % 10) + 1]>>

\* ------------------------------------------------ extraction pipeline
\* The answers of the generative model are inputs.  A call is a record
\* [ok, text]: ok = FALSE is a rejected generateContent promise.  The answer
\* of the structured call is given by what /\{[\s\S]*\}/ and JSON.parse make
\* of it: kind "nojson" (no match), "badjson" (JSON.parse throws) or "json"
\* with the parsed object obj.
ErrParse == "Failed to extract structured data from the text."
ErrProcess == "An error occurred while processing the image."

\* an object without any of the four properties
NoData ==
  [error |-> "", date |-> Absent, utr |-> Absent, amount_in_inr |-> Absent,
   is_edited |-> FALSE, utr_alternatives |-> <<>>]

\* a catch block that resolves to an empty object instead of an error
CaughtSilently(calls) == [data |-> NoData, calls |-> calls]

\* the catch block of processImage
Caught(calls) == [data |-> [NoData EXCEPT !.error = ErrProcess], calls |-> calls]

\* line 883
parseExtraction(ans) ==
  IF ans.kind = "json"
  THEN [NoData EXCEPT !.date = ans.obj.date, !.utr = ans.obj.utr,
                      !.amount_in_inr = ans.obj.amount_in_inr,
                      !.is_edited = ans.obj.is_edited]
  ELSE [NoData EXCEPT !.error = ErrParse]

\* lines 913-920
verifiedAmount(amount, verifiedAmountText) ==
  IF toLowerCase(verifiedAmountText) = <<"c", "o", "r", "r", "e", "c", "t">>
  THEN amount
  ELSE IF toLowerCase(verifiedAmountText)
            = <<"n", "o", "t", " ", "f", "o", "u", "n", "d">>
  THEN amount
  ELSE parseFloat(verifiedAmountText)

\* extractedData.amount_in_inr.replace(...) on a truthy amount that is not a
\* string: a TypeError
replaceThrows(extractedData) ==
  Truthy(extractedData.amount_in_inr) /\ IsNum(extractedData.amount_in_inr)

\* the verification call made from the limit on
needsVerificationFromLimit(extractedData) ==
  /\ Truthy(extractedData.amount_in_inr)
  /\ parseFloat(stripCommas(extractedData.amount_in_inr)) >= 100 * AmountLimit

\* does the amount of the parsed object call for the verification call?
needsVerification(extractedData) ==
  /\ Truthy(extractedData.amount_in_inr)
  /\ parseFloat(stripCommas(extractedData.amount_in_inr)) > 100 * AmountLimit

\* lines 885-926, given the answer of the verification call
verifyAmount(extractedData, ver) ==
  LET amount == parseFloat(stripCommas(extractedData.amount_in_inr))
      v == verifiedAmount(amount, Trim(ver.text))
  IN IF ~isNaN(v) THEN [extractedData EXCEPT !.amount_in_inr = toFixed2(v)]
     ELSE extractedData

\* Array.prototype.find(num => num.startsWith('4')): Absent when none
RECURSIVE findWith4(_)
findWith4(arr) ==
  IF arr = <<>> THEN Absent
  ELSE IF startsWith(arr[1], "4") THEN arr[1]
  ELSE findWith4(Tail(arr))

\* a selection that takes the first match whatever its first digit
selectUtrFirstMatch(extractedData, utrMatches) ==
  IF Len(utrMatches) > 0
     /\ (~Truthy(extractedData.utr) \/ ~includes(utrMatches, extractedData.utr))
  THEN [extractedData EXCEPT
          !.utr = utrMatches[1],
          !.utr_alternatives =
            IF Len(utrMatches) > 1
            THEN SelectSeq(utrMatches, LAMBDA m : m # utrMatches[1])
            ELSE @]
  ELSE extractedData

\* lines 928-936
selectUtr(extractedData, utrMatches) ==
  IF Len(utrMatches) > 0
     /\ (~Truthy(extractedData.utr) \/ ~includes(utrMatches, extractedData.utr))
  THEN LET utrWith4 == findWith4(utrMatches)
           utr == IF Truthy(utrWith4) THEN utrWith4 ELSE utrMatches[1]
       IN [extractedData EXCEPT
             !.utr = utr,
             !.utr_alternatives =
               IF Len(utrMatches) > 1
               THEN SelectSeq(utrMatches, LAMBDA m : m # utr)
               ELSE @]
  ELSE extractedData

\* processImage: the object it resolves to, and the model calls it made
processImage(raw, ans, ver) ==
  IF ~raw.ok THEN Caught(<<"raw">>)
  ELSE IF ans.kind \in {"fail", "badjson"} THEN Caught(<<"raw", "extract">>)
  ELSE
    LET rawText == Trim(raw.text)
        utrMatches == twelveDigitMatches(rawText)
        extractedData == parseExtraction(ans)
    IN IF replaceThrows(extractedData) THEN Caught(<<"raw", "extract">>)
       ELSE IF needsVerification(extractedData)
       THEN IF ~ver.ok THEN Caught(<<"raw", "extract", "verify">>)
            ELSE [data |-> selectUtr(verifyAmount(extractedData, ver), utrMatches),
                  calls |-> <<"raw", "extract", "verify">>]
       ELSE [data |-> selectUtr(extractedData, utrMatches),
             calls |-> <<"raw", "extract">>]

\* line 1033: the length check of the route
normalizeUtr(utr) == IF Truthy(utr) /\ Len(utr) # UtrLen THEN NA ELSE utr

\* -------------------------------------------------------------- state
VARIABLES
  users,         \* UserProfile collection, in order of creation; _id = index
  transactions,  \* Transaction collection
  logs,          \* Log collection
  hits,          \* the rate limiter's store: hits of the window, per user _id
  sent,          \* history: authenticated process-image requests of the
                 \* window, per non-admin user _id
  now,           \* the clock, in days
  mails,         \* what the SMTP relay has accepted
  res,           \* the request answered by the latest step and its response
  px,            \* the extraction under study: inputs and result
  inflight,      \* the requests and bootstraps between two of their awaits
  hist,          \* history: the collections when the requests in flight
                 \* were issued, and the users one of whose writes failed
  adminPage      \* the admin page open in a browser: overlay, requests in
                 \* flight, keys shown, timers

vars == <<users, transactions, logs, hits, sent, now, mails, res, px, inflight, hist, adminPage>>

store == <<users, transactions, logs, mails>>

\* the _ids: up to MaxUsers users, or an admin and MaxLimited others
UserIds == 1..(IF MaxUsers > MaxLimited THEN MaxUsers ELSE MaxLimited + 1)

\* process.env.SMTP_FROM, the default admin's address
SMTP_FROM == "from@x"

\* the keys: opaque strings
Key(i) == "key_" \o ToString(i)

\* 'key_' + crypto.randomBytes(16).toString('hex'): a key some user holds already, or
\* one that no user holds (the keys being opaque, one such key stands for all)
generateApiKey ==
  {users[i].apiKey : i \in 1..Len(users)} \cup {Key(Len(users) + 1)}

\* X-API-Key of a request: a key, a key of no user, or none
HeaderKeys == {Key(i) : i \in {0} \cup UserIds} \cup {""}

\* the instants at which the clock is read
Instants == {0} \cup (LogTTL..MaxTime)

\* ------------------------------------------------------ store queries
\* UserProfile.findOne({ apiKey }): the _id, 0 for null
findOneByKey(key) ==
  IF \E i \in 1..Len(users) : users[i].apiKey = key
  THEN CHOOSE i \in 1..Len(users) : users[i].apiKey = key
  ELSE 0

\* UserProfile.findOne({ isAdmin: true }) finds a document
adminExists == \E i \in 1..Len(users) : users[i].isAdmin

\* Log.countDocuments({ userId })
countLogs(u) == Cardinality({i \in 1..Len(logs) : logs[i].userId = u})

\* userProfileSchema without its unique indexes
saveRejectsNoDuplicate(doc) ==
  doc.name = "" \/ doc.email = "" \/ doc.apiKey = ""

\* the unique indexes and the required paths of userProfileSchema
saveRejects(doc) ==
  \/ doc.name = "" \/ doc.email = "" \/ doc.apiKey = ""
  \/ \E i \in 1..Len(users) :
       users[i].apiKey = doc.apiKey \/ users[i].email = doc.email

\* a document whose isAdmin is left to the schema's default
newUserByDefault(name, email, apiKey, isAdmin) ==
  [apiKey |-> apiKey, name |-> name, email |-> email, isAdmin |-> FALSE,
   requestCount |-> 0, createdAt |-> now]

\* new UserProfile({...}) with the schema's defaults
newUser(name, email, apiKey, isAdmin) ==
  [apiKey |-> apiKey, name |-> name, email |-> email, isAdmin |-> isAdmin,
   requestCount |-> 0, createdAt |-> now]

\* the orders a descending sort on key may return rows in: every arrangement
\* of the index set idx with non-increasing keys key[i] (ties in any order)
SortedDesc(idx, key) ==
  {p \in [1..Cardinality(idx) -> idx] :
     /\ \A a, b \in 1..Cardinality(idx) : a # b => p[a] # p[b]
     /\ \A a \in 1..(Cardinality(idx) - 1) : key[p[a]] >= key[p[a + 1]]}

\* ---------------------------------------------------------- middleware
ErrNoKey == "Unauthorized: API key required"
ErrInvalidKey == "Unauthorized: Invalid API key"
ErrAuth == "Server error during authentication"

\* a response of authenticateUser that ends the request
Denied(status, error) == [status |-> status, user |-> 0, error |-> error]

\* authenticateUser without the test of line 773: the key is looked up even
\* when the header is missing
authenticateUserLooksUpFirst(key, fault) ==
  IF fault = "findOne" THEN Denied(500, ErrAuth)
  ELSE IF findOneByKey(key) = 0 THEN Denied(401, ErrInvalidKey)
  ELSE [status |-> 0, user |-> findOneByKey(key), error |-> ""]

\* authenticateUser: status 0 stands for next()
authenticateUser(key, fault) ==
  IF key = "" THEN Denied(401, ErrNoKey)
  ELSE IF fault = "findOne" THEN Denied(500, ErrAuth)
  ELSE IF findOneByKey(key) = 0 THEN Denied(401, ErrInvalidKey)
  ELSE [status |-> 0, user |-> findOneByKey(key), error |-> ""]

\* requireAdmin without the test of the flag (line 793)
requireAdminAnyUser(u, fault) ==
  IF fault = "findById" THEN 500 ELSE 0

\* requireAdmin: status 0 stands for next()
requireAdmin(u, fault) ==
  IF fault = "findById" THEN 500
  ELSE IF ~users[u].isAdmin THEN 403
  ELSE 0

\* skip of createUserRateLimiter
skip(u) == users[u].isAdmin

\* a keyGenerator that gives every user the same key
keyGeneratorShared(u) == 1

\* keyGenerator of createUserRateLimiter
keyGenerator(u) == u

\* createUserRateLimiter answering 429 from the max-th hit on
rateLimitFromMax(u) ==
  IF skip(u) THEN [hits |-> hits, limited |-> FALSE, remaining |-> 0]
  ELSE [hits |-> [hits EXCEPT ![keyGenerator(u)] = @ + 1],
        limited |-> hits[keyGenerator(u)] + 1 >= RateMax,
        remaining |-> 0]

\* a limiter with one window for all the users
rateLimitOneWindow(u) ==
  IF skip(u) THEN [hits |-> hits, limited |-> FALSE, remaining |-> 0]
  ELSE LET k == 1
           totalHits == hits[k] + 1
       IN [hits |-> [hits EXCEPT ![k] = totalHits],
           limited |-> totalHits > RateMax,
           remaining |-> IF RateMax > totalHits THEN RateMax - totalHits ELSE 0]

\* createUserRateLimiter: the store after the hit, and whether the handler
\* (429) answers instead of next()
rateLimit(u) ==
  IF skip(u) THEN [hits |-> hits, limited |-> FALSE, remaining |-> 0]
  ELSE LET k == keyGenerator(u)
           totalHits == hits[k] + 1
       IN [hits |-> [hits EXCEPT ![k] = totalHits],
           limited |-> totalHits > RateMax,
           remaining |-> IF RateMax > totalHits THEN RateMax - totalHits ELSE 0]

\* new Date(Date.now() + 60 * 1000)
resetTime == [day |-> now, plusMs |-> WindowMs]

Response(op, key, status, arg, body) ==
  [op |-> op, key |-> key, status |-> status, arg |-> arg, body |-> body]

\* the latest step answered no request
NoResponse == Response("none", "", 0, <<>>, <<>>)

\* ---------------------------------------------- POST /api/process-image
\* what a request leaves behind: the response and the collections
Out(status, body, user, x, h, t, l, us) ==
  [status |-> status, body |-> body, user |-> user, calls |-> x.calls,
   hits |-> h, transactions |-> t, logs |-> l, users |-> us]

\* processImage was not called
NotCalled == [data |-> NoData, calls |-> <<>>]

\* new Transaction({...}), lines 1037-1042
newTransaction(u, extractedData) ==
  [userId |-> u, date |-> extractedData.date, utr |-> extractedData.utr,
   amount_in_inr |-> extractedData.amount_in_inr, createdAt |-> now]

\* new Log({...}), lines 1046-1054
newLog(u, extractedData) ==
  [userId |-> u, timestamp |-> now,
   processingData |->
     [date |-> OrNA(extractedData.date), utr |-> OrNA(extractedData.utr),
      amount_in_inr |-> OrNA(extractedData.amount_in_inr),
      is_edited |-> extractedData.is_edited]]

\* the $inc applied to every user
incRequestCountOfAll(u) ==
  [i \in 1..Len(users) |-> [users[i] EXCEPT !.requestCount = @ + 1]]

\* an update that replaces the document instead of applying $inc to it
incRequestCountReplacing(u) ==
  [users EXCEPT ![u] = newUser(@.name, @.email, @.apiKey, FALSE)]

\* UserProfile.findByIdAndUpdate(user._id, { $inc: { requestCount: 1 } })
incRequestCount(u) ==
  [users EXCEPT ![u].requestCount = @ + 1]

\* a handler that takes back the Transaction when a later write fails
handleProcessImageCompensating(u, rl, file, raw, ans, ver, fault) ==
  IF file = "none"
  THEN Out(400, [error |-> "No image file uploaded"], u, NotCalled,
           rl.hits, transactions, logs, users)
  ELSE
    LET x == processImage(raw, ans, ver)
        extractedData == [x.data EXCEPT !.utr = normalizeUtr(@)]
    IN IF x.data.error # ""
       THEN Out(500, [error |-> x.data.error], u, x,
                rl.hits, transactions, logs, users)
       ELSE IF fault \in {"transaction.save", "log.save", "findByIdAndUpdate"}
       THEN Out(500, [error |-> ErrProcess], u, x,
                rl.hits, transactions, logs, users)
       ELSE Out(200,
                [success |-> TRUE, data |-> extractedData,
                 rateLimit |-> [remaining |-> rl.remaining,
                                resetTime |-> resetTime]],
                u, x, rl.hits,
                Append(transactions, newTransaction(u, extractedData)),
                Append(logs, newLog(u, extractedData)), incRequestCount(u))

\* the route's handler, lines 1018-1076, for the authenticated user u and
\* the limiter's result rl; file is "ok" or "none"
handleProcessImage(u, rl, file, raw, ans, ver, fault) ==
  IF file = "none"
  THEN Out(400, [error |-> "No image file uploaded"], u, NotCalled,
           rl.hits, transactions, logs, users)
  ELSE
    LET x == processImage(raw, ans, ver)
        extractedData == [x.data EXCEPT !.utr = normalizeUtr(@)]
        withTx == Append(transactions, newTransaction(u, extractedData))
        withLog == Append(logs, newLog(u, extractedData))
    IN IF x.data.error # ""
       THEN Out(500, [error |-> x.data.error], u, x,
                rl.hits, transactions, logs, users)
       ELSE IF fault = "transaction.save"
       THEN Out(500, [error |-> ErrProcess], u, x,
                rl.hits, transactions, logs, users)
       ELSE IF fault = "log.save"
       THEN Out(500, [error |-> ErrProcess], u, x,
                rl.hits, withTx, logs, users)
       ELSE IF fault = "findByIdAndUpdate"
       THEN Out(500, [error |-> ErrProcess], u, x,
                rl.hits, withTx, withLog, users)
       ELSE Out(200,
                [success |-> TRUE, data |-> extractedData,
                 rateLimit |-> [remaining |-> rl.remaining,
                                resetTime |-> resetTime]],
                u, x, rl.hits, withTx, withLog, incRequestCount(u))

\* the route with a limiter that gives back the hit of a request answered
\* with an error (skipFailedRequests)
postProcessImageSkipFailed(key, file, raw, ans, ver, fault) ==
  LET auth == authenticateUser(key, fault)
      u == auth.user
      rl == rateLimit(u)
      h == handleProcessImage(u, rl, file, raw, ans, ver, fault)
  IN IF auth.status # 0
     THEN Out(auth.status, [error |-> auth.error], 0, NotCalled,
              hits, transactions, logs, users)
     ELSE IF rl.limited
     THEN Out(429,
              [error |-> "Too many requests, please try again in a minute.",
               requestsRemaining |-> 0, resetTime |-> resetTime],
              u, NotCalled, rl.hits, transactions, logs, users)
     ELSE IF file = "big"
     THEN Out(500, [error |-> "An unexpected error occurred"], u, NotCalled,
              hits, transactions, logs, users)
     ELSE IF h.status >= 400 THEN [h EXCEPT !.hits = hits]
     ELSE h

\* the whole route: authenticateUser, createUserRateLimiter,
\* upload.single('image'), handler.  file "big" is a file over the 5MB limit:
\* multer passes its error to the error-handling middleware (line 1170).
postProcessImage(key, file, raw, ans, ver, fault) ==
  LET auth == authenticateUser(key, fault)
      u == auth.user
      rl == rateLimit(u)
  IN IF auth.status # 0
     THEN Out(auth.status, [error |-> auth.error], 0, NotCalled,
              hits, transactions, logs, users)
     ELSE IF rl.limited
     THEN Out(429,
              [error |-> "Too many requests, please try again in a minute.",
               requestsRemaining |-> 0, resetTime |-> resetTime],
              u, NotCalled, rl.hits, transactions, logs, users)
     ELSE IF file = "big"
     THEN Out(500, [error |-> "An unexpected error occurred"], u, NotCalled,
              rl.hits, transactions, logs, users)
     ELSE handleProcessImage(u, rl, file, raw, ans, ver, fault)

\* what the model did with the calls of a request: whether the raw-text call
\* and the amount check resolved, and the kind of the structured answer
Answered(raw, ans, ver) == [raw |-> raw.ok, ans |-> ans.kind, ver |-> ver.ok]
NoModel == [raw |-> FALSE, ans |-> "none", ver |-> FALSE]

ProcessImage(key, file, raw, ans, ver, fault) ==
  LET o == postProcessImage(key, file, raw, ans, ver, fault)
  IN /\ users' = o.users
     /\ transactions' = o.transactions
     /\ logs' = o.logs
     /\ hits' = o.hits
     /\ sent' = IF o.user # 0 /\ ~users[o.user].isAdmin
                THEN [sent EXCEPT ![o.user] = @ + 1]
                ELSE sent
     /\ res' = Response("process-image", key, o.status,
                        [user |-> o.user, file |-> file, calls |-> o.calls,
                         model |-> IF o.calls = <<>> THEN NoModel
                                   ELSE Answered(raw, ans, ver),
                         fault |-> fault],
                        o.body)
     /\ UNCHANGED <<now, mails, px, inflight, hist, adminPage>>

\* ------------------------------------------------- /api/admin/users
\* POST: what the request leaves behind
postAdminUsers(key, name, email, apiKey, fault) ==
  LET auth == authenticateUser(key, fault)
      newDoc == newUser(name, email, apiKey, FALSE)
      saved == Append(users, newDoc)
      reply(status, body, us, ms) ==
        [status |-> status, body |-> body, user |-> auth.user,
         users |-> us, mails |-> ms]
  IN IF auth.status # 0
     THEN reply(auth.status, [error |-> auth.error], users, mails)
     ELSE IF requireAdmin(auth.user, fault) = 403
     THEN reply(403, [error |-> "Forbidden: Admin access required"],
                users, mails)
     ELSE IF requireAdmin(auth.user, fault) = 500
     THEN reply(500, [error |-> "Server error"], users, mails)
     ELSE IF fault = "save" \/ saveRejects(newDoc)
     THEN reply(500, [error |-> "Error creating user"], users, mails)
     ELSE IF fault = "sendMail"
     THEN reply(500, [error |-> "Error creating user"], saved, mails)
     ELSE reply(200,
                [success |-> TRUE, message |-> "User created and email sent",
                 user |-> [id |-> Len(saved), name |-> name, email |-> email,
                           apiKey |-> apiKey]],
                saved, mails \cup {[to |-> email, apiKey |-> apiKey]})

CreateUser(key, name, email, apiKey, fault) ==
  LET o == postAdminUsers(key, name, email, apiKey, fault)
  IN /\ users' = o.users
     /\ mails' = o.mails
     /\ res' = Response("create-user", key, o.status,
                        [user |-> o.user, name |-> name, email |-> email],
                        o.body)
     /\ UNCHANGED <<transactions, logs, hits, sent, now, px, inflight, hist, adminPage>>

\* UserProfile.find({ isAdmin: false }): the _ids
nonAdmins == {i \in 1..Len(users) : ~users[i].isAdmin}

userCreatedAt == [i \in 1..Len(users) |-> users[i].createdAt]

\* GET: order is the order the sorted find returned the users in
getAdminUsers(key, order, fault) ==
  LET auth == authenticateUser(key, fault)
      usersWithCounts ==
        [j \in 1..Len(order) |->
           [id |-> order[j], name |-> users[order[j]].name,
            email |-> users[order[j]].email,
            apiKey |-> users[order[j]].apiKey,
            requestCount |-> countLogs(order[j]),
            createdAt |-> users[order[j]].createdAt]]
      reply(status, body) ==
        [status |-> status, body |-> body, user |-> auth.user]
  IN IF auth.status # 0 THEN reply(auth.status, [error |-> auth.error])
     ELSE IF requireAdmin(auth.user, fault) = 403
     THEN reply(403, [error |-> "Forbidden: Admin access required"])
     ELSE IF requireAdmin(auth.user, fault) = 500
     THEN reply(500, [error |-> "Server error"])
     ELSE IF fault \in {"find", "countDocuments"}
     THEN reply(500, [error |-> "Error fetching users"])
     ELSE reply(200, [success |-> TRUE, data |-> usersWithCounts])

ListUsers(key, order, fault) ==
  LET o == getAdminUsers(key, order, fault)
  IN /\ res' = Response("list-users", key, o.status, [user |-> o.user], o.body)
     /\ UNCHANGED <<users, transactions, logs, hits, sent, now, mails, px, inflight, hist, adminPage>>

\* ------------------------------------------------------ GET /api/logs
\* a date of the query string: given or not
NoDate == [given |-> FALSE, day |-> 0]
OnDay(d) == [given |-> TRUE, day |-> d]

\* the filter without its userId
matchesQueryAnyOwner(i, u, startDate, endDate) ==
  /\ startDate.given => logs[i].timestamp >= startDate.day
  /\ endDate.given => logs[i].timestamp <= endDate.day + 1

\* the filter of lines 1088-1100, on the log with index i
matchesQuery(i, u, startDate, endDate) ==
  /\ logs[i].userId = u
  /\ startDate.given => logs[i].timestamp >= startDate.day
  /\ endDate.given => logs[i].timestamp <= endDate.day + 1

logTimestamp == [i \in 1..Len(logs) |-> logs[i].timestamp]

\* lines 1111-1120; owner is the _id of the populated user document and id
\* the document's place in the collection, both of which the response drops
formatLog(i) ==
  [timestamp |-> logs[i].timestamp,
   username |-> users[logs[i].userId].name,
   data |-> logs[i].processingData,
   owner |-> logs[i].userId,
   id |-> i]

\* Math.ceil(total / limit)
ceilDiv(a, b) == (a + b - 1) \div b

\* order is the order the sorted find puts the matching logs in
getLogs(key, startDate, endDate, page, limit, order, fault) ==
  LET auth == authenticateUser(key, fault)
      skipped == (page - 1) * limit
      last == IF skipped + limit < Len(order) THEN skipped + limit
              ELSE Len(order)
      found == SubSeq(order, skipped + 1, last)
      total == Len(order)
      reply(status, body) ==
        [status |-> status, body |-> body, user |-> auth.user]
  IN IF auth.status # 0 THEN reply(auth.status, [error |-> auth.error])
     ELSE IF fault \in {"find", "countDocuments"}
     THEN reply(500, [error |-> "An error occurred while retrieving logs."])
     ELSE reply(200,
                [success |-> TRUE,
                 data |->
                   [logs |-> [j \in 1..Len(found) |-> formatLog(found[j])],
                    pagination |-> [total |-> total, page |-> page,
                                    pages |-> ceilDiv(total, limit)]]])

\* the logs the query of user u matches
matching(u, startDate, endDate) ==
  {i \in 1..Len(logs) : matchesQuery(i, u, startDate, endDate)}

ListLogs(key, startDate, endDate, page, limit, order, fault) ==
  LET o == getLogs(key, startDate, endDate, page, limit, order, fault)
  IN /\ res' = Response("logs", key, o.status,
                        [user |-> o.user, startDate |-> startDate,
                         endDate |-> endDate, page |-> page, limit |-> limit],
                        o.body)
     /\ UNCHANGED <<users, transactions, logs, hits, sent, now, mails, px, inflight, hist, adminPage>>

\* ---------------------------------------------------------- GET /health
Health ==
  /\ res' = Response("health", "", 200, <<>>, [status |-> "ok"])
  /\ UNCHANGED <<users, transactions, logs, hits, sent, now, mails, px, inflight, hist, adminPage>>

\* ------------------------------------------- startup: createDefaultAdmin
createDefaultAdmin(apiKey, fault) ==
  LET adminUser == newUser("Admin", SMTP_FROM, apiKey, TRUE)
  IN IF fault = "findOne" \/ adminExists THEN users
     ELSE IF fault = "save" \/ saveRejects(adminUser) THEN users
     ELSE Append(users, adminUser)

Startup(apiKey, fault) ==
  /\ users' = createDefaultAdmin(apiKey, fault)
  /\ res' = NoResponse
  /\ UNCHANGED <<transactions, logs, hits, sent, now, mails, px, inflight, hist, adminPage>>

\* ------------------------------------------------------- environment
\* the clock advances
Advance(t) ==
  /\ t > now
  /\ now' = t
  /\ res' = NoResponse
  /\ UNCHANGED <<users, transactions, logs, hits, sent, mails, px, inflight, hist, adminPage>>

\* a TTL monitor that deletes logs of any age
ExpireLogOfAnyAge(i) ==
  /\ i \in 1..Len(logs)
  /\ logs' = SubSeq(logs, 1, i - 1) \o SubSeq(logs, i + 1, Len(logs))
  /\ res' = NoResponse
  /\ UNCHANGED <<users, transactions, hits, sent, now, mails, px, inflight, hist, adminPage>>

\* the TTL index on Log.timestamp (expires: 864000): the store's monitor
\* deletes a log once its retention is over
ExpireLog(i) ==
  /\ i \in 1..Len(logs)
  /\ logs[i].timestamp + LogTTL <= now
  /\ logs' = SubSeq(logs, 1, i - 1) \o SubSeq(logs, i + 1, Len(logs))
  /\ res' = NoResponse
  /\ UNCHANGED <<users, transactions, hits, sent, now, mails, px, inflight, hist, adminPage>>

\* the limiter's window of a key ends (windowMs): its hits start again
WindowRollover(u) ==
  /\ hits[u] > 0 \/ sent[u] > 0
  /\ hits' = [hits EXCEPT ![u] = 0]
  /\ sent' = [sent EXCEPT ![u] = 0]
  /\ res' = NoResponse
  /\ UNCHANGED <<users, transactions, logs, now, mails, px, inflight, hist, adminPage>>

\* ------------------------------------------------------------- inputs
U4 == <<"4">> \o Rep("1", 11)
U5 == <<"5">> \o Rep("2", 11)
U9 == <<"9">> \o Rep("3", 11)
Short11 == Rep("4", 11)
Glued == <<"U", "T", "R">> \o U4
Word == <<"p", "a", "i", "d">>

Tokens == {U4, U5, Short11, Glued, Word}

RECURSIVE JoinTokens(_)
JoinTokens(ts) ==
  IF ts = <<>> THEN <<>>
  ELSE IF Len(ts) = 1 THEN ts[1]
  ELSE ts[1] \o <<" ">> \o JoinTokens(Tail(ts))

\* the raw texts: up to MaxTokens tokens, blank-separated
RawTexts ==
  {JoinTokens(ts) : ts \in UNION {[1..k -> Tokens] : k \in 0..MaxTokens}}

Amt500 == <<"5", "0", "0", ".", "0", "0">>
AmtLakh == <<"2", ",", "5", "0", ",", "0", "0", "0">>
AmtAtLimit == <<"1", "0", "0", "0", "0", "0">>
AmtWords == <<"R", "s">>
AmtNumber == Num(<<"2", "5", "0", "0", "0", "0">>)

VCorrect == <<"C", "o", "r", "r", "e", "c", "t">>
VNotFound == <<"n", "o", "t", " ", "f", "o", "u", "n", "d">>
VNumber == <<"2", "5", "0", "0", "0">>
VNumberUnit == <<" ", "2", "5", "0", "0", ".", "5", " ", "I", "N", "R">>
VOther == <<"u", "n", "s", "u", "r", "e">>

Date1 == <<"1", "2", " ", "J", "u", "n">>

Call(text) == [ok |-> TRUE, text |-> text]
CallFails == [ok |-> FALSE, text |-> <<>>]

Obj(date, utr, amount, edited) ==
  [date |-> date, utr |-> utr, amount_in_inr |-> amount, is_edited |-> edited]
Json(obj) == [kind |-> "json", obj |-> obj]
NotJson(kind) == [kind |-> kind, obj |-> Obj(Absent, Absent, Absent, FALSE)]

\* the answers the extraction is studied on
XRaw == {CallFails} \cup {Call(t) : t \in RawTexts}
XAns ==
  {NotJson("fail"), NotJson("nojson"), NotJson("badjson")}
  \cup {Json(Obj(Date1, u, a, FALSE)) :
          u \in {Absent, <<>>, U4, U5, U9, Short11},
          a \in {Absent, Amt500, AmtAtLimit, AmtLakh, AmtWords, AmtNumber}}
XVer ==
  {CallFails}
  \cup {Call(v) : v \in {VCorrect, VNotFound, VNumber, VNumberUnit, VOther}}

\* the submissions the routes are driven with
Good ==
  [raw |-> Call(JoinTokens(<<Word, U4>>)),
   ans |-> Json(Obj(Date1, U4, Amt500, FALSE)), ver |-> CallFails]
ShortUtr ==
  [raw |-> Call(Word), ans |-> Json(Obj(Date1, Short11, Amt500, TRUE)),
   ver |-> CallFails]
NoFields ==
  [raw |-> Call(Word), ans |-> Json(Obj(Absent, Absent, Absent, FALSE)),
   ver |-> CallFails]
LargeAmount ==
  [raw |-> Call(Word), ans |-> Json(Obj(Date1, U4, AmtLakh, FALSE)),
   ver |-> CallFails]
NoJson == [raw |-> Call(Word), ans |-> NotJson("nojson"), ver |-> CallFails]
BadJson == [raw |-> Call(Word), ans |-> NotJson("badjson"), ver |-> CallFails]
RawFails == [raw |-> CallFails, ans |-> NotJson("fail"), ver |-> CallFails]
ExtractFails == [raw |-> Call(Word), ans |-> NotJson("fail"), ver |-> CallFails]

Failing == {LargeAmount, NoJson, BadJson, RawFails, ExtractFails}

Samples == {Good, ShortUtr, NoFields} \cup Failing

\* the model is never called for a request without a usable file
NoSample == RawFails

Files == {"ok", "none", "big"}

DefaultLimit == 10
MaxPage == 2
MaxLogs == 3
MaxWrites == 2

\* ------------------------------------------- requests between awaits
\* A handler runs from one await to the next without interruption, and the
\* handlers of other requests run in between.  A slot holds one request (or
\* one bootstrap of a starting server process) in flight: what was sent,
\* the await it stands at (pc), what it has got so far, and its response.
\* alone and delta are history: the responses the whole handler could give
\* and the documents it would write if it ran alone when the request was
\* issued.
MaxInFlight == 2
MaxStored == 2

Slots == 1..MaxInFlight

\* a countDocuments that has not resolved yet
Pending == -1

NoDelta == [transactions |-> <<>>, logs |-> <<>>, inc |-> 0]

Idle ==
  [op |-> "idle", pc |-> "idle", key |-> "", file |-> "none", s |-> NoSample,
   fault |-> "none", user |-> 0, remaining |-> 0, called |-> 0,
   found |-> <<>>, counts |-> <<>>, apiKey |-> "", status |-> 0,
   body |-> <<>>, alone |-> {}, delta |-> NoDelta]

AllIdle == \A r \in Slots : inflight[r].pc = "idle"

\* no request in flight has passed its first await
NoneStarted ==
  \A r \in Slots : inflight[r].pc \in {"idle", "authenticate", "findOne"}

\* the slot after res.json(...) or res.status(...).json(...)
Done(q, status, body) ==
  [q EXCEPT !.pc = "done", !.status = status, !.body = body]

\* what the step that turns slot r into q answers, if it answers
Answer(q) ==
  IF q.pc = "done" /\ q.op # "startup"
  THEN Response(q.op, q.key, q.status, [user |-> q.user], q.body)
  ELSE NoResponse

\* a request arrives (or a server process starts): it takes the first free
\* slot, while no request in flight has passed its first await
Issue(r, q) ==
  /\ inflight[r].pc = "idle"
  /\ \A k \in 1..(r - 1) : inflight[k].pc # "idle"
  /\ NoneStarted
  /\ inflight' = [inflight EXCEPT ![r] = q]
  /\ hist' = IF AllIdle
             THEN [hist EXCEPT !.users = users, !.transactions = transactions,
                               !.logs = logs]
             ELSE hist
  /\ res' = NoResponse
  /\ UNCHANGED <<users, transactions, logs, hits, sent, now, mails, px, adminPage>>

\* POST /api/process-image arrives
IssueProcessImage(r, key, file, s, fault) ==
  LET o == postProcessImage(key, file, s.raw, s.ans, s.ver, fault)
  IN Issue(r, [Idle EXCEPT
       !.op = "process-image", !.pc = "authenticate", !.key = key,
       !.file = file, !.s = s, !.fault = fault,
       !.alone = {[status |-> o.status, body |-> o.body]},
       !.delta =
         [transactions |->
            SubSeq(o.transactions, Len(transactions) + 1, Len(o.transactions)),
          logs |-> SubSeq(o.logs, Len(logs) + 1, Len(o.logs)),
          inc |-> IF o.users # users THEN o.user ELSE 0]])

\* GET /api/admin/users arrives
IssueListUsers(r, key, fault) ==
  Issue(r, [Idle EXCEPT
    !.op = "list-users", !.pc = "authenticate", !.key = key, !.fault = fault,
    !.alone =
      {[status |-> getAdminUsers(key, order, fault).status,
        body |-> getAdminUsers(key, order, fault).body] :
         order \in SortedDesc(nonAdmins, userCreatedAt)}])

\* a server process starts listening: createDefaultAdmin is called
IssueStartup(r, fault) ==
  Issue(r, [Idle EXCEPT !.op = "startup", !.pc = "findOne", !.fault = fault])

\* a step of slot r that writes nothing to the store
StepTo(r, q) ==
  /\ inflight' = [inflight EXCEPT ![r] = q]
  /\ res' = Answer(q)

\* authenticateUser: await UserProfile.findOne({ apiKey }), lines 771-782
StepAuthenticate(r) ==
  LET q == inflight[r]
      auth == authenticateUser(q.key, q.fault)
  IN /\ q.pc = "authenticate"
     /\ StepTo(r, IF auth.status # 0
                  THEN Done(q, auth.status, [error |-> auth.error])
                  ELSE [q EXCEPT !.user = auth.user,
                                 !.pc = IF q.op = "process-image" THEN "limit"
                                        ELSE "findById"])
     /\ UNCHANGED <<users, transactions, logs, hits, sent, now, mails, px, hist, adminPage>>

\* createUserRateLimiter, upload.single('image') and the handler up to its
\* first await, lines 1016-1027
StepLimit(r) ==
  LET q == inflight[r]
      rl == rateLimit(q.user)
  IN /\ q.pc = "limit"
     /\ hits' = rl.hits
     /\ sent' = IF users[q.user].isAdmin THEN sent
                ELSE [sent EXCEPT ![q.user] = @ + 1]
     /\ StepTo(r,
          IF rl.limited
          THEN Done(q, 429,
                    [error |-> "Too many requests, please try again in a minute.",
                     requestsRemaining |-> 0, resetTime |-> resetTime])
          ELSE IF q.file = "big"
          THEN Done(q, 500, [error |-> "An unexpected error occurred"])
          ELSE IF q.file = "none"
          THEN Done(q, 400, [error |-> "No image file uploaded"])
          ELSE [q EXCEPT !.remaining = rl.remaining, !.pc = "generateContent"])
     /\ UNCHANGED <<users, transactions, logs, now, mails, px, hist, adminPage>>

\* the object the handler works on after processImage has resolved, line
\* 1033 applied
extractedDataOf(q) ==
  [processImage(q.s.raw, q.s.ans, q.s.ver).data EXCEPT !.utr = normalizeUtr(@)]

\* processImage: one await model.generateContent(...) resolves or rejects;
\* after the last one, lines 1029-1043 up to await transaction.save()
StepGenerateContent(r) ==
  LET q == inflight[r]
      x == processImage(q.s.raw, q.s.ans, q.s.ver)
      called == [q EXCEPT !.called = @ + 1]
  IN /\ q.pc = "generateContent"
     /\ StepTo(r, IF called.called < Len(x.calls) THEN called
                  ELSE IF x.data.error # ""
                  THEN Done(called, 500, [error |-> x.data.error])
                  ELSE [called EXCEPT !.pc = "transaction.save"])
     /\ UNCHANGED <<users, transactions, logs, hits, sent, now, mails, px, hist, adminPage>>

\* the catch block of the handler, lines 1072-1075, after a write of the
\* request has failed
WriteFails(r) ==
  /\ StepTo(r, Done(inflight[r], 500, [error |-> ErrProcess]))
  /\ hist' = [hist EXCEPT !.failed = @ \cup {inflight[r].user}]

\* a handler that goes on to the Log without having stored the Transaction
StepSaveTransactionSkipped(r) ==
  LET q == inflight[r]
  IN /\ q.pc = "transaction.save"
     /\ StepTo(r, [q EXCEPT !.pc = "log.save"])
     /\ UNCHANGED <<users, transactions, logs, hits, sent, now, mails, px, hist, adminPage>>

\* await transaction.save() resolves or rejects, lines 1043-1055
StepSaveTransaction(r) ==
  LET q == inflight[r]
  IN /\ q.pc = "transaction.save"
     /\ IF q.fault = "transaction.save"
        THEN WriteFails(r) /\ UNCHANGED transactions
        ELSE /\ transactions' =
                  Append(transactions, newTransaction(q.user, extractedDataOf(q)))
             /\ StepTo(r, [q EXCEPT !.pc = "log.save"])
             /\ UNCHANGED hist
     /\ UNCHANGED <<users, logs, hits, sent, now, mails, px, adminPage>>

\* await log.save() resolves or rejects, lines 1055-1058
StepSaveLog(r) ==
  LET q == inflight[r]
  IN /\ q.pc = "log.save"
     /\ IF q.fault = "log.save"
        THEN WriteFails(r) /\ UNCHANGED logs
        ELSE /\ logs' = Append(logs, newLog(q.user, extractedDataOf(q)))
             /\ StepTo(r, [q EXCEPT !.pc = "findByIdAndUpdate"])
             /\ UNCHANGED hist
     /\ UNCHANGED <<users, transactions, hits, sent, now, mails, px, adminPage>>

\* an increment computed by the handler from the counter it read when the
\* request arrived, and written back
StepFindByIdAndUpdateFromRead(r) ==
  LET q == inflight[r]
  IN /\ q.pc = "findByIdAndUpdate"
     /\ users' = [users EXCEPT ![q.user].requestCount =
                    hist.users[q.user].requestCount + 1]
     /\ StepTo(r, Done(q, 200,
          [success |-> TRUE, data |-> extractedDataOf(q),
           rateLimit |-> [remaining |-> q.remaining,
                          resetTime |-> resetTime]]))
     /\ UNCHANGED <<transactions, logs, hits, sent, now, mails, px, hist, adminPage>>

\* await UserProfile.findByIdAndUpdate(...) resolves or rejects, and the
\* response, lines 1058-1071
StepFindByIdAndUpdate(r) ==
  LET q == inflight[r]
  IN /\ q.pc = "findByIdAndUpdate"
     /\ IF q.fault = "findByIdAndUpdate"
        THEN WriteFails(r) /\ UNCHANGED users
        ELSE /\ users' = incRequestCount(q.user)
             /\ StepTo(r, Done(q, 200,
                  [success |-> TRUE, data |-> extractedDataOf(q),
                   rateLimit |-> [remaining |-> q.remaining,
                                  resetTime |-> resetTime]]))
             /\ UNCHANGED hist
     /\ UNCHANGED <<transactions, logs, hits, sent, now, mails, px, adminPage>>

\* requireAdmin: await UserProfile.findById(req.user._id), lines 791-796
StepFindById(r) ==
  LET q == inflight[r]
      denied == requireAdmin(q.user, q.fault)
  IN /\ q.pc = "findById"
     /\ StepTo(r, IF denied = 403
                  THEN Done(q, 403, [error |-> "Forbidden: Admin access required"])
                  ELSE IF denied = 500
                  THEN Done(q, 500, [error |-> "Server error"])
                  ELSE [q EXCEPT !.pc = "find"])
     /\ UNCHANGED <<users, transactions, logs, hits, sent, now, mails, px, hist, adminPage>>

\* lines 997-1004, with the counts that have resolved
usersWithCountsOf(q) ==
  [j \in 1..Len(q.found) |->
     [id |-> q.found[j], name |-> users[q.found[j]].name,
      email |-> users[q.found[j]].email,
      apiKey |-> users[q.found[j]].apiKey,
      requestCount |-> q.counts[j],
      createdAt |-> users[q.found[j]].createdAt]]

\* GET /api/admin/users: await UserProfile.find(...).sort('-createdAt')
\* resolves with the users in order, or rejects; every countDocuments is
\* started, lines 990-995
StepFind(r, order) ==
  LET q == inflight[r]
  IN /\ q.pc = "find"
     /\ StepTo(r, IF q.fault = "find"
                  THEN Done(q, 500, [error |-> "Error fetching users"])
                  ELSE IF order = <<>>
                  THEN Done(q, 200, [success |-> TRUE, data |-> <<>>])
                  ELSE [q EXCEPT !.found = order,
                                 !.counts = [j \in 1..Len(order) |-> Pending],
                                 !.pc = "countDocuments"])
     /\ UNCHANGED <<users, transactions, logs, hits, sent, now, mails, px, hist, adminPage>>

\* await Log.countDocuments({ userId }) of the j-th user resolves or rejects;
\* Promise.all resolves with the last one, lines 995-1006
StepCountDocuments(r, j) ==
  LET q == inflight[r]
      counted == [q EXCEPT !.counts[j] = countLogs(q.found[j])]
  IN /\ q.pc = "countDocuments"
     /\ j \in 1..Len(q.found)
     /\ q.counts[j] = Pending
     /\ StepTo(r, IF q.fault = "countDocuments"
                  THEN Done(q, 500, [error |-> "Error fetching users"])
                  ELSE IF \E k \in 1..Len(q.found) : counted.counts[k] = Pending
                  THEN counted
                  ELSE Done(counted, 200,
                            [success |-> TRUE, data |-> usersWithCountsOf(counted)]))
     /\ UNCHANGED <<users, transactions, logs, hits, sent, now, mails, px, hist, adminPage>>

\* createDefaultAdmin: await UserProfile.findOne({ isAdmin: true }) resolves
\* or rejects; the document is built with the generated key, lines 1153-1160
StepFindOneAdmin(r, apiKey) ==
  LET q == inflight[r]
  IN /\ q.pc = "findOne"
     /\ StepTo(r, IF q.fault = "findOne" THEN Done(q, 0, [outcome |-> "failed"])
                  ELSE IF adminExists THEN Done(q, 0, [outcome |-> "exists"])
                  ELSE [q EXCEPT !.apiKey = apiKey, !.pc = "save"])
     /\ UNCHANGED <<users, transactions, logs, hits, sent, now, mails, px, hist, adminPage>>

\* a save of the default admin on a collection without its unique indexes
StepSaveAdminUnchecked(r) ==
  LET q == inflight[r]
  IN /\ q.pc = "save"
     /\ users' = Append(users, newUser("Admin", SMTP_FROM, q.apiKey, TRUE))
     /\ StepTo(r, Done(q, 0, [outcome |-> "created"]))
     /\ UNCHANGED <<transactions, logs, hits, sent, now, mails, px, hist, adminPage>>

\* createDefaultAdmin: await adminUser.save() resolves or rejects, lines
\* 1161-1166
StepSaveAdmin(r) ==
  LET q == inflight[r]
      adminUser == newUser("Admin", SMTP_FROM, q.apiKey, TRUE)
  IN /\ q.pc = "save"
     /\ IF q.fault = "save" \/ saveRejects(adminUser)
        THEN /\ StepTo(r, Done(q, 0, [outcome |-> "failed"]))
             /\ UNCHANGED users
        ELSE /\ users' = Append(users, adminUser)
             /\ StepTo(r, Done(q, 0, [outcome |-> "created"]))
     /\ UNCHANGED <<transactions, logs, hits, sent, now, mails, px, hist, adminPage>>

\* the responses have been sent and the bootstraps have returned
Retire ==
  /\ ~AllIdle
  /\ \A r \in Slots : inflight[r].pc \in {"idle", "done"}
  /\ inflight' = [r \in Slots |-> Idle]
  /\ res' = NoResponse
  /\ UNCHANGED <<users, transactions, logs, hits, sent, now, mails, px, hist, adminPage>>

\* ----------------------------------------------------- the admin page
\* The script of the admin page (src/public/admin.js, lines 1-253) runs in a
\* browser: its handlers run one at a time, each up to its next await, and
\* the server's answers are inputs.  adminPage.overlay is whether loadingOverlay
\* is visible, adminPage.loading and adminPage.creating count the fetches of loadUsers
\* and of the form's submit handler that have not resolved, adminPage.shown[u] is
\* whether the cell apiKey-u shows the key, adminPage.timers are the pending
\* timeouts of toggleApiKey, adminPage.clock is the time in ms; adminPage.revealedAt
\* and adminPage.last are history: when each key was last revealed, and the
\* latest handler that ran.
MaxPageUsers == 2
MaxPageLoads == 2
MaxClock == 40000

\* the delay of the setTimeout in toggleApiKey
RevealMs == 30000

\* how far the clock is advanced at a time, when no timeout is due before
ClockStep == 10000

PageUsers == 1..MaxPageUsers

PageInit ==
  [overlay |-> FALSE, apiKeyInput |-> FALSE, loading |-> 0, creating |-> 0,
   shown |-> [u \in PageUsers |-> FALSE], timers |-> {},
   revealedAt |-> [u \in PageUsers |-> 0], clock |-> 0,
   last |-> [op |-> "none", user |-> 0]]

Ran(op, u) == [op |-> op, user |-> u]

\* the server's variables: the page writes none of them
PageOnly ==
  UNCHANGED <<users, transactions, logs, hits, sent, now, mails, res, px,
              inflight, hist>>

\* loadUsers up to its await fetch(...), lines 99-109, on the page pg
loadUsersCalled(pg) ==
  IF ~pg.apiKeyInput THEN pg
  ELSE [pg EXCEPT !.overlay = TRUE, !.loading = @ + 1]

\* hideLoading, line 58
hideLoading(pg) == [pg EXCEPT !.overlay = FALSE]

\* hideApiKey, lines 238-243
hideApiKey(pg, u) == [pg EXCEPT !.shown[u] = FALSE]

\* the change handler of apiKeyInput, lines 15-18: the key is typed in or
\* cleared
PageKeyChange(filled) ==
  /\ adminPage.loading < MaxPageLoads
  /\ adminPage' = [loadUsersCalled([adminPage EXCEPT !.apiKeyInput = filled])
                EXCEPT !.last = Ran("change", 0)]
  /\ PageOnly

\* loadUsers called by the 30-second interval (lines 213-217), by the date
\* filter's change (line 205) or by the initial load (lines 208-210)
PageLoadUsers ==
  /\ adminPage.loading < MaxPageLoads
  /\ adminPage' = [loadUsersCalled(adminPage) EXCEPT !.last = Ran("loadUsers", 0)]
  /\ PageOnly

\* the fetch of a loadUsers resolves or rejects, lines 105-177: on success
\* the table is rendered anew, every key masked; finally hideLoading
PageLoadUsersDone(success) ==
  /\ adminPage.loading > 0
  /\ LET fetched == [adminPage EXCEPT !.loading = @ - 1]
         rendered == IF success
                     THEN [fetched EXCEPT !.shown = [u \in PageUsers |-> FALSE]]
                     ELSE fetched
     IN adminPage' = [hideLoading(rendered) EXCEPT !.last = Ran("loaded", 0)]
  /\ PageOnly

\* the submit handler of addUserForm up to its await fetch(...), lines 61-78
PageSubmit ==
  /\ adminPage.creating < MaxPageLoads
  /\ adminPage' = [adminPage EXCEPT !.overlay = TRUE, !.creating = @ + 1,
                          !.last = Ran("submit", 0)]
  /\ PageOnly

\* the fetch of a submit resolves or rejects, lines 80-95: on success
\* loadUsers is called (and not awaited); finally hideLoading
PageSubmitDone(success) ==
  /\ adminPage.creating > 0
  /\ success => adminPage.apiKeyInput /\ adminPage.loading < MaxPageLoads
  /\ LET fetched == [adminPage EXCEPT !.creating = @ - 1]
         reloading == IF success THEN loadUsersCalled(fetched) ELSE fetched
     IN adminPage' = [hideLoading(reloading) EXCEPT !.last = Ran("submitted", 0)]
  /\ PageOnly

\* toggleApiKey(userId, apiKey), lines 220-236
PageToggle(u) ==
  /\ adminPage' =
       IF ~adminPage.shown[u]
       THEN [adminPage EXCEPT !.shown[u] = TRUE,
                         !.timers = @ \cup {[user |-> u,
                                             due |-> adminPage.clock + RevealMs]},
                         !.revealedAt[u] = adminPage.clock,
                         !.last = Ran("toggle", u)]
       ELSE [hideApiKey(adminPage, u) EXCEPT !.last = Ran("toggle", u)]
  /\ PageOnly

\* a timeout of toggleApiKey fires, lines 230-232
PageTimeout(t) ==
  /\ t \in adminPage.timers
  /\ t.due <= adminPage.clock
  /\ adminPage' = [hideApiKey(adminPage, t.user) EXCEPT !.timers = @ \ {t},
                                               !.last = Ran("timeout", t.user)]
  /\ PageOnly

\* the least of a non-empty set of numbers
Least(S) == CHOOSE x \in S : \A y \in S : x <= y

\* time passes in the browser, up to the next timeout that is due: a
\* timeout fires when its delay is over
PageAdvance ==
  /\ adminPage.clock < MaxClock
  /\ \A t \in adminPage.timers : t.due > adminPage.clock
  /\ adminPage' = [adminPage EXCEPT
       !.clock = Least({adminPage.clock + ClockStep}
                       \cup {t.due : t \in adminPage.timers}),
       !.last = Ran("none", 0)]
  /\ PageOnly

\* ------------------------------------------------------ specification
PxIdle ==
  [raw |-> CallFails, ans |-> NotJson("fail"), ver |-> CallFails,
   done |-> FALSE, out |-> Caught(<<>>)]

InitStore ==
  /\ users = <<>>
  /\ transactions = <<>>
  /\ logs = <<>>
  /\ hits = [u \in UserIds |-> 0]
  /\ sent = [u \in UserIds |-> 0]
  /\ now = 0
  /\ mails = {}
  /\ res = NoResponse
  /\ inflight = [r \in Slots |-> Idle]
  /\ hist = [users |-> <<>>, transactions |-> <<>>, logs |-> <<>>,
             failed |-> {}]
  /\ adminPage = PageInit

Init == InitStore /\ px = PxIdle

\* a submission: the upload, what the model answers, the awaited call that
\* fails
Submission(file, s, fault) == [file |-> file, s |-> s, fault |-> fault]

Submissions ==
  {Submission(f, NoSample, x) : f \in {"none", "big"}, x \in {"none", "findOne"}}
  \cup {Submission("ok", s, "none") : s \in {Good} \cup Failing}
  \cup {Submission("ok", Good, x) :
          x \in {"findOne", "transaction.save", "log.save", "findByIdAndUpdate"}}

\* POST /api/process-image with a submission of reqs, while a window holds
\* at most cap hits of a user and the store at most maxTx transactions
ReqProcessImage(reqs, cap, maxTx) ==
  \E key \in HeaderKeys, r \in reqs :
    /\ LET o == postProcessImage(key, r.file, r.s.raw, r.s.ans, r.s.ver, r.fault)
       IN /\ Len(o.transactions) <= maxTx
          /\ \A u \in UserIds : o.hits[u] <= cap
    /\ ProcessImage(key, r.file, r.s.raw, r.s.ans, r.s.ver, r.fault)

\* the body of POST /api/admin/users and the awaited call that fails
Creation(name, email, fault) == [name |-> name, email |-> email, fault |-> fault]

Creations ==
  {Creation("Ann", "a@x", x) :
     x \in {"none", "findOne", "findById", "save", "sendMail"}}
  \cup {Creation("Ann", SMTP_FROM, "none"), Creation("", "a@x", "none"),
        Creation("Ann", "", "none")}

\* generateApiKey is called by the handler (line 948): a request that the
\* two gates end generates no key
reachesHandler(key, fault) ==
  /\ authenticateUser(key, fault).status = 0
  /\ requireAdmin(authenticateUser(key, fault).user, fault) = 0

\* POST /api/admin/users with a body of reqs, while the store holds at most
\* cap users
ReqCreateUserUpTo(reqs, cap) ==
  \E key \in HeaderKeys, r \in reqs :
  \E apiKey \in IF reachesHandler(key, r.fault) THEN generateApiKey ELSE {""} :
    /\ Len(postAdminUsers(key, r.name, r.email, apiKey, r.fault).users) <= cap
    /\ CreateUser(key, r.name, r.email, apiKey, r.fault)

ReqCreateUser(reqs) == ReqCreateUserUpTo(reqs, MaxUsers)

ReqListUsers(faults) ==
  \E key \in HeaderKeys, fault \in faults,
     order \in SortedDesc(nonAdmins, userCreatedAt) :
    ListUsers(key, order, fault)

\* the query string of GET /api/logs and the awaited call that fails
Query(startDate, endDate, page, limit, fault) ==
  [startDate |-> startDate, endDate |-> endDate, page |-> page,
   limit |-> limit, fault |-> fault]

DefaultQueries ==
  {Query(NoDate, NoDate, 1, DefaultLimit, x) :
     x \in {"none", "findOne", "find"}}

ReqListLogs(reqs) ==
  \E key \in HeaderKeys, r \in reqs :
    \E order \in SortedDesc(matching(findOneByKey(key), r.startDate, r.endDate),
                            logTimestamp) :
      ListLogs(key, r.startDate, r.endDate, r.page, r.limit, order, r.fault)

\* createDefaultAdmin calls generateApiKey when it has found no admin
ServerStart(faults) ==
  \E fault \in faults :
  \E apiKey \in IF fault = "findOne" \/ adminExists THEN {""}
                 ELSE generateApiKey :
    Startup(apiKey, fault)

Tick == \E t \in Instants : Advance(t)

Expire == \E i \in 1..Len(logs) : ExpireLog(i)

Rollover == \E u \in UserIds : WindowRollover(u)

\* the service under every request and every failing call, on a small
\* store and within one day
Next ==
  \/ ServerStart({"none", "findOne", "save"})
  \/ ReqProcessImage(Submissions, MaxBurst, MaxTx)
  \/ ReqCreateUser(Creations)
  \/ ReqListUsers({"none", "findOne", "findById", "find", "countDocuments"})
  \/ ReqListLogs(DefaultQueries)
  \/ Health
  \/ Rollover

Spec == Init /\ [][Next]_vars

\* ---------------------------------------------- the limiter's windows
LimiterSubmissions ==
  {Submission("none", NoSample, "none"), Submission("ok", Good, "none")}
  \cup {Submission("ok", s, "none") : s \in Failing}

\* the service under enough submissions to fill a window and go MaxOver
\* beyond it
NextLimiter ==
  \/ ServerStart({"none"})
  \/ ReqCreateUser({Creation("Ann", "a@x", "none")})
  \/ ReqProcessImage(LimiterSubmissions, RateMax + MaxOver, MaxTx)
  \/ Rollover

SpecLimiter == Init /\ [][NextLimiter]_vars

\* ------------------------------------------- the limiter and two users
\* the service under the requests of MaxLimited users who are not admins,
\* each filling a window and going MaxOver beyond it; the requests carry no
\* file, which the limiter does not look at
NextPeers ==
  \/ ServerStart({"none"})
  \/ ReqCreateUserUpTo({Creation("Ann", "a@x", "none"),
                        Creation("Bob", "b@x", "none")}, MaxLimited + 1)
  \/ ReqProcessImage({Submission("none", NoSample, "none")},
                     RateMax + MaxOver, 0)
  \/ Rollover

SpecPeers == Init /\ [][NextPeers]_vars

\* ----------------------------------------------------- the three writes
WriteSubmissions ==
  {Submission("ok", s, "none") : s \in {Good, ShortUtr, NoFields}}
  \cup {Submission("ok", Good, x) :
          x \in {"transaction.save", "log.save", "findByIdAndUpdate"}}
  \cup {Submission("none", NoSample, "none")}

\* the service under up to MaxWrites submissions that reach the store, any
\* of whose writes may fail
NextWrites ==
  \/ ServerStart({"none"})
  \/ ReqCreateUser({Creation("Ann", "a@x", "none")})
  \/ ReqProcessImage(WriteSubmissions, MaxWrites, MaxWrites)

SpecWrites == Init /\ [][NextWrites]_vars

\* ------------------------------------------------- the log listings
Queries ==
  {Query(s, e, 1, DefaultLimit, "none") :
     s \in {NoDate, OnDay(1)}, e \in {NoDate, OnDay(0)}}
  \cup {Query(NoDate, NoDate, p, l, "none") :
          p \in 1..MaxPage, l \in {1, DefaultLimit}}

\* the service under up to MaxLogs successful submissions, the passing of
\* days, the expiry of logs, and every listing
NextLogs ==
  \/ ServerStart({"none"})
  \/ ReqCreateUser({Creation("Ann", "a@x", "none")})
  \/ ReqProcessImage({Submission("ok", Good, "none")}, MaxLogs, MaxLogs)
  \/ ReqListLogs(Queries)
  \/ ReqListUsers({"none"})
  \/ Tick
  \/ Expire

SpecLogs == Init /\ [][NextLogs]_vars

\* the same, with the store's TTL monitor running: it wakes up periodically
\* for as long as the store runs, so that a log whose retention is over is
\* not left in the store forever
SpecRetention == Init /\ [][NextLogs]_vars /\ WF_vars(Expire)

\* ------------------------------------------- the extraction on its own
InitExtract ==
  /\ InitStore
  /\ px \in {[raw |-> r, ans |-> a, ver |-> v, done |-> FALSE,
               out |-> Caught(<<>>)] : r \in XRaw, a \in XAns, v \in XVer}

\* processImage(imageBuffer) on the answers of px
Extract ==
  /\ ~px.done
  /\ px' = [px EXCEPT !.done = TRUE,
                      !.out = processImage(px.raw, px.ans, px.ver)]
  /\ UNCHANGED <<users, transactions, logs, hits, sent, now, mails, res,
                 inflight, hist, adminPage>>

SpecExtract == InitExtract /\ [][Extract]_vars

\* ------------------------------------------- the requests in flight
\* the key generated by the server process of slot r: the keys being random,
\* two processes may generate the same key but hardly ever do
processKey(r) == "key_p" \o ToString(r)

\* the keys of the stored users with admin flag f
StoredKeys(f) == {users[i].apiKey : i \in {k \in 1..Len(users) : users[k].isAdmin = f}}

\* the submissions in flight
Submitting == {r \in Slots : inflight[r].op = "process-image"}

StepSubmissions ==
  {Submission("ok", Good, x) :
     x \in {"none", "transaction.save", "log.save", "findByIdAndUpdate"}}

\* a user who is not an admin submits, while the store holds fewer than MaxStored
\* transactions once the submissions in flight have written theirs
StartProcessImage ==
  \E r \in Slots, key \in StoredKeys(FALSE), sub \in StepSubmissions :
    /\ Len(transactions) + Cardinality(Submitting) < MaxStored
    /\ hits[findOneByKey(key)] + Cardinality(Submitting) < MaxStored
    /\ IssueProcessImage(r, key, sub.file, sub.s, sub.fault)

\* the admin lists the users
StartListUsers ==
  \E r \in Slots, key \in StoredKeys(TRUE) : IssueListUsers(r, key, "none")

StartServer ==
  \E r \in Slots, fault \in {"none", "findOne", "save"} : IssueStartup(r, fault)

\* createDefaultAdmin calls generateApiKey when it has found no admin
FindsAdmin ==
  \E r \in Slots :
  \E apiKey \in IF inflight[r].fault = "findOne" \/ adminExists THEN {""}
                 ELSE generateApiKey \cup {processKey(r)} :
    StepFindOneAdmin(r, apiKey)

\* the admin creates a user while no request is in flight
CreatesUser ==
  /\ AllIdle
  /\ ReqCreateUserUpTo({Creation("Ann", "a@x", "none"),
                        Creation("Bob", "b@x", "none")}, MaxLimited + 1)

\* the server starts while no request is in flight
StartsAlone == AllIdle /\ ServerStart({"none"})

\* up to MaxInFlight server processes starting at once on one store, the
\* awaited calls of their bootstraps resolving in every order
NextBoot ==
  \/ StartServer
  \/ FindsAdmin
  \/ \E r \in Slots : StepSaveAdmin(r)
  \/ Retire
  \/ CreatesUser

SpecBoot == Init /\ [][NextBoot]_vars

\* the service with up to MaxInFlight requests in flight at once, their
\* awaited calls resolving in every order
NextSteps ==
  \/ StartsAlone
  \/ StartProcessImage
  \/ StartListUsers
  \/ CreatesUser
  \/ \E r \in Slots : StepAuthenticate(r)
  \/ \E r \in Slots : StepLimit(r)
  \/ \E r \in Slots : StepGenerateContent(r)
  \/ \E r \in Slots : StepSaveTransaction(r)
  \/ \E r \in Slots : StepSaveLog(r)
  \/ \E r \in Slots : StepFindByIdAndUpdate(r)
  \/ \E r \in Slots : StepFindById(r)
  \/ \E r \in Slots, order \in SortedDesc(nonAdmins, userCreatedAt) :
       StepFind(r, order)
  \/ \E r \in Slots, j \in UserIds : StepCountDocuments(r, j)
  \/ Retire

SpecSteps == Init /\ [][NextSteps]_vars

\* ------------------------------------------------------ the admin page
\* the admin page under every order of its events: key changes, loads of
\* the user list, submissions of the form, answers of the server (success or
\* not), toggles of the keys of MaxPageUsers users, timeouts and the passing
\* of time
NextPage ==
  \/ \E filled \in BOOLEAN : PageKeyChange(filled)
  \/ PageLoadUsers
  \/ \E success \in BOOLEAN : PageLoadUsersDone(success)
  \/ PageSubmit
  \/ \E success \in BOOLEAN : PageSubmitDone(success)
  \/ \E u \in PageUsers : PageToggle(u)
  \/ \E t \in adminPage.timers : PageTimeout(t)
  \/ PageAdvance

SpecPage == Init /\ [][NextPage]_vars

\* =============================================================== claims
\* the endpoints behind authenticateUser, and those behind requireAdmin too
ApiOps == {"process-image", "logs", "create-user", "list-users"}
AdminOps == {"create-user", "list-users"}

\* the user whose key the answered request carried, 0 for none
Caller == findOneByKey(res.key)

C3_SuccessWritesOnce ==
  [][(res'.op = "process-image" /\ res'.status = 200) =>
       LET u == res'.arg.user
       IN /\ res'.body.success
          /\ users' = [users EXCEPT ![u].requestCount = users[u].requestCount + 1]
          /\ Len(transactions') = Len(transactions) + 1
          /\ SubSeq(transactions', 1, Len(transactions)) = transactions
          /\ transactions'[Len(transactions')].userId = u
          /\ Len(logs') = Len(logs) + 1
          /\ SubSeq(logs', 1, Len(logs)) = logs
          /\ logs'[Len(logs')].userId = u]_vars

\* a submission of the second user has succeeded after one of the first
C3_Witness ==
  /\ res.op = "process-image" /\ res.status = 200 /\ res.arg.user = 2
  /\ Len(transactions) = 2 /\ transactions[1].userId = 1
  /\ users[1].requestCount = 1 /\ users[2].requestCount = 1

\* C4 as written: the UTR of every stored Transaction and of every stored
\* Log is 12 characters long or the sentinel 'N/A'.
C4_AsWritten ==
  /\ \A i \in 1..Len(transactions) :
       transactions[i].utr = NA \/ Len(transactions[i].utr) = UtrLen
  /\ \A i \in 1..Len(logs) :
       logs[i].processingData.utr = NA
       \/ Len(logs[i].processingData.utr) = UtrLen

\* C5 as written: on a raw text made of two 12-digit numbers, one of them
\* starting with "4", processImage returns that one as the UTR whatever the
\* model answered for the UTR.
TwoNumbers == {JoinTokens(<<U4, U5>>), JoinTokens(<<U5, U4>>)}

C5_AsWritten ==
  (px.done /\ px.raw.ok /\ px.raw.text \in TwoNumbers
     /\ px.out.data.error = "") =>
    px.out.data.utr = U4

C7_OwnLogsNewestFirst ==
  (res.op = "logs" /\ res.status = 200) =>
    /\ \A j \in 1..Len(res.body.data.logs) : res.body.data.logs[j].owner = res.arg.user
    /\ \A j \in 1..(Len(res.body.data.logs) - 1) :
         res.body.data.logs[j].timestamp >= res.body.data.logs[j + 1].timestamp

\* a listing of two logs of different days, while another user has a log
C7_Witness ==
  /\ res.op = "logs" /\ res.status = 200
  /\ Len(res.body.data.logs) = 2
  /\ res.body.data.logs[1].timestamp > res.body.data.logs[2].timestamp
  /\ \E i \in 1..Len(logs) : logs[i].userId # res.arg.user

\* C8 as written: GET /api/admin/users lists users without the admin flag
\* only, each with the requestCount stored in the user's document.
C8_AsWritten ==
  (res.op = "list-users" /\ res.status = 200) =>
    \A j \in 1..Len(res.body.data) :
      /\ ~users[res.body.data[j].id].isAdmin
      /\ res.body.data[j].requestCount
           = users[res.body.data[j].id].requestCount

\* no two users share a key or an email
UniqueUsers(us) ==
  \A i, j \in 1..Len(us) :
    i # j => us[i].apiKey # us[j].apiKey /\ us[i].email # us[j].email

\* POST /api/admin/users by an admin, with a name and an email given and
\* held by no stored user
FreshCreation ==
  /\ res'.op = "create-user"
  /\ findOneByKey(res'.key) # 0 /\ users[findOneByKey(res'.key)].isAdmin
  /\ res'.arg.name # "" /\ res'.arg.email # ""
  /\ \A i \in 1..Len(users) :
       users[i].name # res'.arg.name /\ users[i].email # res'.arg.email

\* the user document such a request stores, with key k
Created(k) ==
  [apiKey |-> k, name |-> res'.arg.name, email |-> res'.arg.email,
   isAdmin |-> FALSE, requestCount |-> 0, createdAt |-> now]

\* C9 as amended: such a request either answers success, having stored
\* exactly one new user with that name and email, admin flag false, counter
\* 0 and a key no stored user had, having sent that key to that email and
\* answering with the same key; or it answers 500 (a lookup, the save or the
\* mail delivery has failed), having sent no mail and stored nothing or that
\* one user.  In every state no two users share a key or an email.
C9_FreshUserStored ==
  [][/\ UniqueUsers(users')
     /\ FreshCreation =>
          \/ /\ res'.status = 200 /\ res'.body.success
             /\ \E k \in {res'.body.user.apiKey} :
                  /\ \A i \in 1..Len(users) : users[i].apiKey # k
                  /\ users' = Append(users, Created(k))
                  /\ mails' = mails \cup {[to |-> res'.arg.email, apiKey |-> k]}
          \/ /\ res'.status = 500
             /\ mails' = mails
             /\ \/ users' = users
                \/ /\ Len(users') = Len(users) + 1
                   /\ users' = Append(users, Created(users'[Len(users')].apiKey))]_vars

\* a second user has been created and mailed the key
C9_Witness ==
  /\ res.op = "create-user" /\ res.status = 200
  /\ Len(users) = 2 /\ ~users[2].isAdmin /\ users[2].requestCount = 0
  /\ [to |-> users[2].email, apiKey |-> users[2].apiKey] \in mails
  /\ res.body.user.apiKey = users[2].apiKey

\* C9 as written: such a request answers success and stores one new user
C9_AsWritten ==
  [][FreshCreation =>
       /\ res'.status = 200
       /\ Len(users') = Len(users) + 1]_vars

\* the model calls a request made, and whether one of them failed or the
\* structured answer held no parsable JSON object
CallsOf(arg) == {arg.calls[i] : i \in 1..Len(arg.calls)}

ExtractionFailed(arg) ==
  \/ "raw" \in CallsOf(arg) /\ ~arg.model.raw
  \/ "extract" \in CallsOf(arg) /\ arg.model.ans \in {"fail", "nojson", "badjson"}
  \/ "verify" \in CallsOf(arg) /\ ~arg.model.ver

NoCallRepeated(arg) == Cardinality(CallsOf(arg)) = Len(arg.calls)

C11_UsersOnlyCount ==
  [][/\ Len(users') >= Len(users)
     /\ \A i \in 1..Len(users) :
          /\ users'[i] = [users[i] EXCEPT !.requestCount = users'[i].requestCount]
          /\ users'[i].requestCount >= users[i].requestCount]_vars

\* the admin's counter has been incremented while a second user is stored
C11_Witness ==
  /\ Len(users) = 2 /\ users[1].isAdmin /\ users[1].requestCount = 1
  /\ res.op = "process-image" /\ res.status = 200 /\ res.arg.user = 1

\* the number of documents of a collection equal to doc
CountOf(coll, doc) == Cardinality({i \in 1..Len(coll) : coll[i] = doc})

\* a log whose retention is over
Expired(i) == logs[i].timestamp + LogTTL <= now

\* C12: a Log whose timestamp is less than LogTTL days old is left in the
\* store by every step; while in the store it is returned by its owner's
\* unfiltered GET /api/logs and counted by GET /api/admin/users; once LogTTL
\* days have passed it is eventually purged; no step removes or changes a
\* stored Transaction.
C12_Retention ==
  /\ [][/\ \A i \in 1..Len(logs) :
            ~Expired(i) => CountOf(logs', logs[i]) >= CountOf(logs, logs[i])
        /\ Len(transactions') >= Len(transactions)
        /\ SubSeq(transactions', 1, Len(transactions)) = transactions
        /\ (res'.op = "logs" /\ res'.status = 200
              /\ ~res'.arg.startDate.given /\ ~res'.arg.endDate.given
              /\ res'.arg.page = 1 /\ res'.arg.limit = DefaultLimit) =>
             /\ res'.body.data.pagination.total = countLogs(res'.arg.user)
             /\ Len(res'.body.data.logs) = countLogs(res'.arg.user)
        /\ (res'.op = "list-users" /\ res'.status = 200) =>
             \A j \in 1..Len(res'.body.data) :
               res'.body.data[j].requestCount = countLogs(res'.body.data[j].id)]_vars
  /\ (\E i \in 1..Len(logs) : Expired(i)) ~> (\A i \in 1..Len(logs) : ~Expired(i))

\* ten days on, the log of the first day has been purged, its Transaction
\* is in the store, and a log written since is in the store
C12_Witness ==
  /\ now >= LogTTL
  /\ \E i \in 1..Len(transactions) : transactions[i].createdAt + LogTTL <= now
  /\ Len(logs) >= 1
  /\ \A i \in 1..Len(logs) : ~Expired(i)

\* POST /api/process-image has reached its three writes: authenticated, not
\* limited, with a file, the extraction without error
ReachesWrites ==
  /\ res'.op = "process-image" /\ res'.arg.user # 0
  /\ res'.arg.file = "ok" /\ res'.status # 429
  /\ ~ExtractionFailed(res'.arg)

\* one document of user u was appended to the collection
AppendedOne(before, after, u) ==
  /\ Len(after) = Len(before) + 1
  /\ SubSeq(after, 1, Len(before)) = before
  /\ after[Len(after)].userId = u

\* C13: the writes of POST /api/process-image are made in the order
\* Transaction, Log, counter, and a failure takes nothing back: when the
\* Transaction write fails nothing is written; when the Log write fails the
\* Transaction is in the store, no Log is written and no counter changes;
\* when the increment fails the Transaction and the Log are in the store and
\* no counter changes; each time the answer is 500.  So a step never writes
\* a Log without a Transaction nor increments a counter without a Log.
C13_WritesInOrder ==
  [][/\ ReachesWrites =>
          LET u == res'.arg.user
              f == res'.arg.fault
          IN /\ (f = "transaction.save") =>
                  res'.status = 500 /\ UNCHANGED <<transactions, logs, users, adminPage>>
             /\ (f = "log.save") =>
                  /\ res'.status = 500
                  /\ AppendedOne(transactions, transactions', u)
                  /\ UNCHANGED <<logs, users, adminPage>>
             /\ (f = "findByIdAndUpdate") =>
                  /\ res'.status = 500
                  /\ AppendedOne(transactions, transactions', u)
                  /\ AppendedOne(logs, logs', u)
                  /\ UNCHANGED users
     /\ (Len(logs') > Len(logs)) => (Len(transactions') > Len(transactions))
     /\ (\E i \in 1..Len(users) : users'[i].requestCount > users[i].requestCount)
          => (Len(logs') > Len(logs))]_vars

\* the Log write of a second submission has failed: its Transaction is in
\* the store without a Log
C13_Witness ==
  /\ res.op = "process-image" /\ res.status = 500 /\ res.arg.fault = "log.save"
  /\ Len(transactions) = 2 /\ Len(logs) = 1
  /\ transactions[2].userId = res.arg.user
  /\ users[res.arg.user].requestCount <= 1

\* the documents a GET /api/logs answer lists, in the answer's order
ListedIds(r) == [j \in 1..Len(r.body.data.logs) |-> r.body.data.logs[j].id]

Min(a, b) == IF a < b THEN a ELSE b

\* the answer r holds page r.arg.page of some newest-first arrangement of the
\* caller's filtered logs, with their number as total
IsPageOfFiltered(r) ==
  LET F == matching(r.arg.user, r.arg.startDate, r.arg.endDate)
      p == r.arg.page
      l == r.arg.limit
      n == Cardinality(F)
  IN /\ r.body.data.pagination.total = n
     /\ r.body.data.pagination.page = p
     /\ r.body.data.pagination.pages = ceilDiv(n, l)
     /\ \E order \in SortedDesc(F, logTimestamp) :
          ListedIds(r) = SubSeq(order, (p - 1) * l + 1, Min(p * l, n))

\* two answers to the same caller, filter and limit, for different pages
PagesOfOneListing(r1, r2) ==
  /\ r1.op = "logs" /\ r1.status = 200 /\ r2.op = "logs" /\ r2.status = 200
  /\ r1.arg.user = r2.arg.user /\ r1.arg.limit = r2.arg.limit
  /\ r1.arg.startDate = r2.arg.startDate /\ r1.arg.endDate = r2.arg.endDate
  /\ r1.arg.page # r2.arg.page

\* C14 as written: every successful GET /api/logs answer holds the page asked
\* for of the caller's filtered logs, newest first, with total and pages; and
\* two pages of one listing fetched one after the other (the store is the
\* same for both) share no log.
C14_AsWritten ==
  [][/\ (res'.op = "logs" /\ res'.status = 200) => IsPageOfFiltered(res')
     /\ PagesOfOneListing(res, res') =>
          \A j \in 1..Len(ListedIds(res)), k \in 1..Len(ListedIds(res')) :
            ListedIds(res)[j] # ListedIds(res')[k]]_vars

\* the part of C14 that every single answer satisfies
C14_EachPage ==
  [][(res'.op = "logs" /\ res'.status = 200) => IsPageOfFiltered(res')]_vars

\* the extraction under study has run and its first two calls have resolved
Extracted == px.done /\ px.raw.ok /\ px.ans.kind # "fail"

\* the amount of the parsed object, when it is a string the code can parse
GivenAmount == px.ans.obj.amount_in_inr

ParsedAmount == parseFloat(stripCommas(GivenAmount))

AmountAbove ==
  /\ px.ans.kind = "json"
  /\ GivenAmount # Absent /\ GivenAmount # <<>> /\ ~IsNum(GivenAmount)
  /\ ParsedAmount > 100 * AmountLimit

\* the answer of the amount check, as the code reads it
CheckAnswer == toLowerCase(Trim(px.ver.text))

BeginsWithNumber(v) == v # <<>> /\ v[1] \in Digits

Selected == px.done /\ px.out.data.error # ErrProcess

\* the 12-digit sequences of the raw text, and the UTR of the model's answer
Sequences12 == twelveDigitMatches(Trim(px.raw.text))

ModelUtr == px.ans.obj.utr

\* the first of the sequences that start with "4", 0 when there is none
FirstWith4 ==
  IF \E i \in 1..Len(Sequences12) : Sequences12[i][1] = "4"
  THEN CHOOSE i \in 1..Len(Sequences12) :
         /\ Sequences12[i][1] = "4"
         /\ \A j \in 1..(i - 1) : Sequences12[j][1] # "4"
  ELSE 0

\* C16: when the raw text has a 12-digit sequence and the model's UTR is
\* absent (or empty) or is none of the sequences, the UTR processImage
\* returns is the first sequence that starts with "4", or the first sequence
\* when none does; when the raw text has no 12-digit sequence, it is the
\* model's UTR.
C16_UtrFromRawText ==
  Selected =>
    /\ (/\ Len(Sequences12) > 0
        /\ \/ ModelUtr \in {Absent, <<>>}
           \/ \A i \in 1..Len(Sequences12) : Sequences12[i] # ModelUtr) =>
         px.out.data.utr = IF FirstWith4 # 0 THEN Sequences12[FirstWith4]
                           ELSE Sequences12[1]
    /\ (Len(Sequences12) = 0) => px.out.data.utr = ModelUtr

\* the model answered a UTR that is not in the raw text "522222222222
\* 411111111111": the second sequence was returned
C16_Witness ==
  /\ Selected /\ px.raw.text = JoinTokens(<<U5, U4>>) /\ ModelUtr = U9
  /\ Sequences12 = <<U5, U4>>
  /\ px.out.data.utr = U4

\* C17: whether an authenticated POST /api/process-image of a user who is
\* not an admin is answered 429 depends on the number of that user's own
\* requests in the user's window and on nothing else, and the request counts
\* for that user only: whatever the other users have sent, it is answered
\* 429 exactly when the user has sent RateMax requests or more, and it leaves
\* the count of every other user as it was.
C17_OwnWindowOnly ==
  [][/\ \A u \in UserIds : sent'[u] = hits'[u]
     /\ (res'.op = "process-image" /\ res'.arg.user # 0
           /\ ~users[res'.arg.user].isAdmin) =>
          LET b == res'.arg.user
          IN /\ (res'.status = 429) <=> (sent[b] >= RateMax)
             /\ hits'[b] = hits[b] + 1
             /\ \A a \in UserIds \ {b} : hits'[a] = hits[a]]_vars

\* a user's first request of a window was accepted while another user, not
\* an admin either, was beyond the limit
C17_Witness ==
  /\ res.op = "process-image" /\ res.status = 400
  /\ ~users[res.arg.user].isAdmin /\ sent[res.arg.user] = 1
  /\ \E a \in 1..Len(users) :
       a # res.arg.user /\ ~users[a].isAdmin /\ sent[a] = RateMax + 1

\* the stored admins
Admins == {i \in 1..Len(users) : users[i].isAdmin}

\* the bootstraps of slots that have returned
Returned == {r \in Slots : inflight[r].op = "startup" /\ inflight[r].pc = "done"}

\* the default admin and no other admin is stored
OneDefaultAdmin ==
  /\ Cardinality(Admins) = 1
  /\ \A i \in Admins : users[i].name = "Admin" /\ users[i].email = SMTP_FROM

\* C18 (amended): the store never holds two admins, and an admin it holds is
\* the default admin; createDefaultAdmin stores the default admin only when
\* it found no admin; and once a createDefaultAdmin whose findOne resolved
\* and whose save was not made to fail has returned, the store holds exactly
\* one default admin, however many bootstraps have run and also when two
\* server processes run theirs at the same moment (the save of the second
\* is then rejected by the unique index on email).
C18_OneAdminUnlessFailure ==
  /\ Cardinality(Admins) <= 1
  /\ \A i \in Admins : users[i].name = "Admin" /\ users[i].email = SMTP_FROM
  /\ \A r \in Returned :
       /\ inflight[r].fault = "none" => OneDefaultAdmin
       /\ inflight[r].body.outcome = "created" => OneDefaultAdmin

\* C18 witness: two server processes have run createDefaultAdmin at the same
\* moment without a failing call, each having found no admin: one has
\* created the default admin and the save of the other was rejected.
C18_Witness ==
  /\ Cardinality(Returned) >= 2
  /\ \A r \in Returned : inflight[r].fault = "none"
  /\ \E r \in Returned : inflight[r].body.outcome = "created"
  /\ \E r \in Returned : inflight[r].body.outcome = "failed"
  /\ OneDefaultAdmin

\* C18 as written: every createDefaultAdmin that has returned has left exactly
\* one default admin in the store.
C18_AsWritten ==
  \A r \in Returned : OneDefaultAdmin

\* the requests in flight, and whether each has been answered
Batch == {r \in Slots : inflight[r].op # "idle"}
Finished == Batch # {} /\ \A r \in Batch : inflight[r].pc = "done"

\* the requests in flight are two or more, of users all different
DifferentUsers ==
  /\ Cardinality(Batch) >= 2
  /\ \A r1, r2 \in Batch : r1 # r2 => inflight[r1].key # inflight[r2].key

RECURSIVE Sum(_, _)
Sum(f, S) ==
  IF S = {} THEN 0
  ELSE LET x == CHOOSE y \in S : TRUE IN f[x] + Sum(f, S \ {x})

\* coll holds the documents of base and those of adds[r], r in Batch, each as
\* many times, in any order
SameDocuments(coll, base, adds) ==
  /\ Len(coll) = Len(base) + Sum([r \in Batch |-> Len(adds[r])], Batch)
  /\ \A i \in 1..Len(coll) :
       CountOf(coll, coll[i]) =
         CountOf(base, coll[i])
         + Sum([r \in Batch |-> CountOf(adds[r], coll[i])], Batch)

\* every request in flight has got a response it gets when it runs alone
AnsweredAsAlone ==
  \A r \in Batch :
    [status |-> inflight[r].status, body |-> inflight[r].body]
      \in inflight[r].alone

\* the collections hold what the requests in flight write when each runs
\* alone, added to what was stored when they were issued
StoredAsAlone ==
  /\ SameDocuments(transactions, hist.transactions,
                   [r \in Batch |-> inflight[r].delta.transactions])
  /\ SameDocuments(logs, hist.logs, [r \in Batch |-> inflight[r].delta.logs])
  /\ users =
       [i \in 1..Len(hist.users) |->
          [hist.users[i] EXCEPT !.requestCount =
             @ + Cardinality({r \in Batch : inflight[r].delta.inc = i})]]

\* C19 (amended): for concurrent POST /api/process-image requests issued by
\* different users, every interleaving of their database and model steps,
\* the runs of the requests one after the other in each order among them,
\* leads to the responses each request gets when it runs alone and to the
\* Users, Transactions and Logs that result from adding what each writes
\* when it runs alone, up to the order of the records (the timestamps being
\* those of one instant here).
C19_SubmissionsIndependent ==
  (Finished /\ DifferentUsers
   /\ \A r \in Batch : inflight[r].op = "process-image")
  => AnsweredAsAlone /\ StoredAsAlone

\* C19 witness: two users' submissions have been answered 200, the
\* Transaction of the first having been stored after that of the second and
\* its Log before: their steps were interleaved.
C19_Witness ==
  /\ Finished /\ DifferentUsers
  /\ \A r \in Batch : inflight[r].op = "process-image" /\ inflight[r].status = 200
  /\ Len(transactions) >= 2 /\ Len(logs) >= 2
  /\ transactions[Len(transactions)].userId = logs[Len(logs) - 1].userId
  /\ transactions[Len(transactions) - 1].userId = logs[Len(logs)].userId
  /\ AnsweredAsAlone /\ StoredAsAlone

\* C19 as written: for concurrent requests issued by different users, every
\* interleaving leads to the responses and the final collections of the
\* requests run one after the other in any order.
C19_AsWritten ==
  (Finished /\ DifferentUsers) => AnsweredAsAlone /\ StoredAsAlone

\* Transaction.countDocuments({ userId })
countTransactions(u) ==
  Cardinality({i \in 1..Len(transactions) : transactions[i].userId = u})

\* a submission of u stands between its first write and its last
BetweenWrites(u) ==
  \E r \in Slots :
    /\ inflight[r].user = u
    /\ inflight[r].pc \in {"log.save", "findByIdAndUpdate"}

CountedLoggedStored(u) ==
  /\ users[u].requestCount <= countLogs(u)
  /\ countLogs(u) <= countTransactions(u)

AllEqual(u) ==
  /\ users[u].requestCount = countLogs(u)
  /\ countLogs(u) = countTransactions(u)

\* C20 (amended): in every reachable state, the states between the awaits
\* of requests in flight included, and for every user u, requestCount(u) <=
\* number of Logs written for u <= number of Transactions written for u (no
\* Log expires here, so the Logs stored are the Logs ever written); the
\* three are equal when no write of a request of u has failed and no request
\* of u stands between its first write and its last.
C20_CountLogsTransactions ==
  \A u \in 1..Len(users) :
    /\ CountedLoggedStored(u)
    /\ (u \notin hist.failed /\ ~BetweenWrites(u)) => AllEqual(u)

\* C20 witness: a user without a failed write has been counted, logged and
\* stored once, another user's increment has failed after its Log was
\* written, and a third request stands between its writes.
C20_Witness ==
  /\ \E u \in 1..Len(users) :
       /\ u \notin hist.failed /\ ~BetweenWrites(u)
       /\ users[u].requestCount = 1 /\ countTransactions(u) = 1
  /\ \E u \in hist.failed : users[u].requestCount < countLogs(u)

\* C20 as written: in every reachable state the three numbers are ordered,
\* and equal when no write has failed.
C20_AsWritten ==
  \A u \in 1..Len(users) :
    /\ CountedLoggedStored(u)
    /\ u \notin hist.failed => AllEqual(u)

\* the requests in flight are two or more submissions of the user u, all
\* answered 200
AllSucceededOf(u) ==
  /\ Finished
  /\ Cardinality(Batch) >= 2
  /\ \A r \in Batch :
       /\ inflight[r].op = "process-image"
       /\ inflight[r].user = u
       /\ inflight[r].status = 200

\* C21: when N >= 2 submissions of one user have run concurrently and all
\* have been answered 200, the user's request counter is N higher than when
\* they were issued, whatever the interleaving of their steps, and N
\* Transactions and N Logs of the user have been added.
C21_NoIncrementLost ==
  \A u \in 1..Len(users) :
    AllSucceededOf(u) =>
      /\ users[u].requestCount =
           hist.users[u].requestCount + Cardinality(Batch)
      /\ Len(transactions) = Len(hist.transactions) + Cardinality(Batch)
      /\ Len(logs) = Len(hist.logs) + Cardinality(Batch)
      /\ \A i \in (Len(hist.transactions) + 1)..Len(transactions) :
           transactions[i].userId = u
      /\ \A i \in (Len(hist.logs) + 1)..Len(logs) : logs[i].userId = u

\* C21 witness: two submissions of one user, issued together, have both been
\* answered 200 and the counter stands at 2.
C21_Witness ==
  \E u \in 1..Len(users) :
    /\ AllSucceededOf(u)
    /\ hist.users[u].requestCount = 0
    /\ users[u].requestCount = 2

\* C22: in every state reachable from the empty store by bootstraps and
\* requests, a store that holds a user holds an admin: no admin exists
\* exactly when the store is empty.
C22_UsersImplyAdmin ==
  adminExists <=> Len(users) > 0

\* C22 witness: the store holds the admin and a user who is not an admin,
\* created by a request the admin was answered 200 for.
C22_Witness ==
  /\ res.op = "create-user" /\ res.status = 200
  /\ Len(users) >= 2
  /\ \E i \in 1..Len(users) : ~users[i].isAdmin
  /\ adminExists

\* the step is a POST /api/admin/users answered with an error
CreationError == res'.op = "create-user" /\ res'.status = 500

\* C23 as written: when POST /api/admin/users answers 500, the user store is
\* the same as before the request.
C23_AsWritten ==
  [][CreationError => users' = users]_vars

\* what the handler does keep to: a request answered 500 has sent no mail,
\* and has either left the user store as it was or added the one user of
\* its body, whose key was then never mailed
C23_SavedBeforeMail ==
  [][CreationError =>
       /\ mails' = mails
       /\ \/ users' = users
          \/ /\ Len(users') = Len(users) + 1
             /\ SubSeq(users', 1, Len(users)) = users
             /\ users'[Len(users')].email = res'.arg.email
             /\ \A m \in mails' : m.apiKey # users'[Len(users')].apiKey]_vars

\* C24: a POST /api/process-image answered 401 leaves the limiter's count of
\* every user as it was; an authenticated one of a user who is not an admin
\* adds exactly one to that user's count and nothing to any other's,
\* whether it is answered 200, 400 (no file), 500 (failed extraction) or
\* 429: the limiter counts after authentication and before the upload is
\* looked at.
C24_QuotaAfterAuthentication ==
  [][res'.op = "process-image" =>
       /\ res'.status = 401 => hits' = hits
       /\ (res'.arg.user # 0 /\ ~users[res'.arg.user].isAdmin) =>
            /\ res'.status \in {200, 400, 429, 500}
            /\ hits' = [hits EXCEPT ![res'.arg.user] = @ + 1]]_vars

\* C24 witness: a request whose extraction failed has been answered 500 and
\* is the third of its user's window to count, the user having been answered
\* each time.
C24_Witness ==
  /\ res.op = "process-image" /\ res.status = 500
  /\ res.arg.calls # <<>>
  /\ ~users[res.arg.user].isAdmin
  /\ hits[res.arg.user] = 3 /\ sent[res.arg.user] = 3

\* the requests of the page that are in flight
PageInFlight == adminPage.loading + adminPage.creating

\* C25 as written: the overlay is visible whenever a load of the user list or
\* a creation is in flight, and hidden when none is.
C25_AsWritten ==
  adminPage.overlay <=> PageInFlight > 0

\* what the page does keep to: the overlay is hidden when no request is in
\* flight, and it is visible while a request is in flight as long as no
\* other request has ended since the request was sent
C25_HiddenWhenIdle ==
  /\ PageInFlight = 0 => ~adminPage.overlay
  /\ adminPage.last.op \in {"submit"} => adminPage.overlay
  /\ (adminPage.last.op \in {"change", "loadUsers"} /\ adminPage.apiKeyInput)
       => adminPage.overlay

\* the key of u is masked by a step that is not a toggle of u
MaskedBy(op, u) ==
  /\ adminPage.shown[u] /\ ~adminPage'.shown[u]
  /\ adminPage'.last.op = op

\* C26 as written: a timeout never masks the key of a user sooner than
\* RevealMs after the key's latest reveal.
C26_AsWritten ==
  [][\A u \in PageUsers :
       MaskedBy("timeout", u) =>
         adminPage'.clock >= adminPage.revealedAt[u] + RevealMs]_vars

\* what the page does keep to: a key that is shown was revealed at most
\* RevealMs ago, a timeout for it being pending, and a key is masked only by
\* a toggle, by a timeout or by the table being rendered anew
C26_MaskedInTime ==
  \A u \in PageUsers :
    adminPage.shown[u] =>
      /\ adminPage.clock <= adminPage.revealedAt[u] + RevealMs
      /\ \E t \in adminPage.timers :
           t.user = u /\ t.due = adminPage.revealedAt[u] + RevealMs
====
